---- MODULE Spec2Model ----
(***************************************************************************)
(* The webhook receivers of zerver/webhooks/updown/view.py and             *)
(* zerver/webhooks/gci/view.py: classification of an inbound event, the    *)
(* body formatters, the topic, and the delivery of one message per event   *)
(* through check_send_webhook_message.                                     *)
(*                                                                         *)
(* Python strings are TLA+ strings, handled character by character with    *)
(* Len, SubSeq and \o.  SANY's lexer rejects the backquote inside a string *)
(* literal, so the backquote of the source's literals is the character     *)
(* named Backquote below.                                                  *)
(***************************************************************************)
EXTENDS Integers, Sequences, FiniteSets, TLC

VARIABLES
    payload,     \* per request: the parsed JSON body (REQ(argument_type="body"))
    kind,        \* per request: "updown", "gci", or "idle" (no request)
    pc,          \* per request: the statement the handler is at
    idx,         \* per request: position of the for loop in the payload array
    event_type,  \* per request: local of send_message_for_event / event of api_gci_webhook
    subject,     \* per request: local subject
    body,        \* per request: local body
    response,    \* per request: what the view returned or raised
    sent,        \* the calls check_send_webhook_message has received, in order
    call,        \* a direct call of one of the pure functions: its name and argument
    ret,         \* what that call returned or raised
    EVENT_TYPE_BODY_MAPPER,  \* updown module global: event type -> name of its formatter
    UPDOWN_ALL_EVENT_TYPES,  \* updown module global ALL_EVENT_TYPES, a list
    EVENTS_FUNCTION_MAPPER,  \* gci module global: event type -> name of its formatter
    GCI_ALL_EVENT_TYPES,     \* gci module global ALL_EVENT_TYPES, a list
    now,          \* time.time(), in whole seconds
    password,     \* the password stored for the logged-in user
    attempts,     \* rate limiter: times of the authentication attempts it has counted
    pw_requests,  \* the password-change requests made so far and their answers
    api_key,      \* per user: the API key stored for the user
    previous_keys,\* per user: the keys the user had before
    key_cache,    \* the authentication cache: API key -> the user a lookup found
    regenerated,  \* the answer to the last api_key/regenerate request
    settings,     \* the stored value of every setting of the logged-in user
    patch         \* the last PATCH /json/settings of one setting and its answer

vars == <<payload, kind, pc, idx, event_type, subject, body, response, sent, call, ret,
          EVENT_TYPE_BODY_MAPPER, UPDOWN_ALL_EVENT_TYPES,
          EVENTS_FUNCTION_MAPPER, GCI_ALL_EVENT_TYPES,
          now, password, attempts, pw_requests,
          api_key, previous_keys, key_cache, regenerated, settings, patch>>

passwordVars == <<now, password, attempts, pw_requests>>

keyVars == <<api_key, previous_keys, key_cache, regenerated>>

settingVars == <<settings, patch>>

\* The accounts of the users and what the server keeps about them.
accountVars == <<passwordVars, keyVars, settingVars>>

\* The module globals of the two views: every request of the process shares them.
moduleVars == <<EVENT_TYPE_BODY_MAPPER, UPDOWN_ALL_EVENT_TYPES,
                EVENTS_FUNCTION_MAPPER, GCI_ALL_EVENT_TYPES>>

reqVars == <<payload, kind, pc, idx, event_type, subject, body, response, sent>>

(***************************************************************************)
(* Bounds of the model.                                                    *)
(***************************************************************************)
NumReqs == 2

MaxBatch == 3

MaxDuration == 130

MaxDays == 2
MaxClock == 11
MaxPwRequests == 4
MaxKeys == 5

(***************************************************************************)
(* Strings.                                                                *)
(***************************************************************************)
Backquote == "'"

CharAt(s, i) == SubSeq(s, i, i)

Whitespace == {" ", "\t", "\n", "\r", "\f"}

\* str.rstrip(): the string without its trailing whitespace.
RECURSIVE Rstrip(_)
Rstrip(s) ==
    IF Len(s) > 0 /\ CharAt(s, Len(s)) \in Whitespace
    THEN Rstrip(SubSeq(s, 1, Len(s) - 1))
    ELSE s

\* str.rstrip(chars): the string without its trailing characters of chars.
RECURSIVE RstripChars(_, _)
RstripChars(s, chars) ==
    IF Len(s) > 0 /\ CharAt(s, Len(s)) \in chars
    THEN RstripChars(SubSeq(s, 1, Len(s) - 1), chars)
    ELSE s

\* str.replace(old, new) for a one-character old: every occurrence, left to right.
RECURSIVE Replace(_, _, _)
Replace(s, old, new) ==
    IF Len(s) = 0 THEN s
    ELSE (IF CharAt(s, 1) = old THEN new ELSE CharAt(s, 1))
         \o Replace(SubSeq(s, 2, Len(s)), old, new)

\* sub in s
Contains(s, sub) ==
    \E i \in 1..(Len(s) - Len(sub) + 1) : SubSeq(s, i, i + Len(sub) - 1) = sub

StartsWith(s, p) == Len(s) >= Len(p) /\ SubSeq(s, 1, Len(p)) = p

EndsWith(s, p) == Len(s) >= Len(p) /\ SubSeq(s, Len(s) - Len(p) + 1, Len(s)) = p

\* The number of (possibly overlapping) occurrences of sub in s.
Occurrences(s, sub) ==
    Cardinality({i \in 1..(Len(s) - Len(sub) + 1) : SubSeq(s, i, i + Len(sub) - 1) = sub})

(***************************************************************************)
(* JSON values and Python outcomes.                                        *)
(***************************************************************************)
\* A JSON string or null, for the fields the code tests for truth.
JNull == [type |-> "null"]

JStr(s) == [type |-> "str", s |-> s]

\* Python truth of a JSON string or null: None and "" are false.
Truthy(v) == v.type = "str" /\ v.s # ""

\* key in dict
Has(d, k) == k \in DOMAIN d

\* A call returns a value, returns None, or raises.
Ok(v) == [err |-> "none", none |-> FALSE, val |-> v]

OkNone == [err |-> "none", none |-> TRUE, val |-> ""]

Raise(e) == [err |-> e, none |-> FALSE, val |-> ""]

NoResult == [err |-> "pending", none |-> FALSE, val |-> ""]

\* A dict display {k1: v1, k2: v2, ...} is a sequence of <<key, value>> items.
\* The dict it builds: a repeated key keeps its last value.
DictOf(items) ==
    [k \in {items[i][1] : i \in DOMAIN items} |->
        items[CHOOSE i \in DOMAIN items :
                /\ items[i][1] = k
                /\ \A j \in DOMAIN items : items[j][1] = k => j <= i][2]]

\* list(d.keys()) of that dict: the keys in the order of their first insertion.
RECURSIVE KeysOf(_)
KeysOf(items) ==
    IF items = <<>> THEN <<>>
    ELSE LET n == Len(items)
             before == KeysOf(SubSeq(items, 1, n - 1))
         IN  IF \E j \in 1..(n - 1) : items[j][1] = items[n][1] THEN before
             ELSE Append(before, items[n][1])

(***************************************************************************)
(* updown: the formatters.                                                 *)
(***************************************************************************)
\* add_time_part_to_string_date_if_needed with the plural from 1 on.
add_time_part_PluralFromOne(value, text_name) ==
    IF value >= 1 THEN ToString(value) \o " " \o text_name \o "s "
    ELSE ""

add_time_part_to_string_date_if_needed(value, text_name) ==
    IF value = 1 THEN "1 " \o text_name \o " "
    ELSE IF value > 1 THEN ToString(value) \o " " \o text_name \o "s "
    ELSE ""

\* DurationParts with the hours and minutes taken from the whole duration.
DurationParts_NoRemainder(duration) ==
    [days |-> duration \div 86400, hours |-> duration \div 3600,
     minutes |-> duration \div 60, seconds |-> duration % 60]

\* The three divmod of get_time_string_based_on_duration.
DurationParts(duration) ==
    LET days == duration \div 86400
        reminder == duration % 86400
        hours == reminder \div 3600
        reminder2 == reminder % 3600
        minutes == reminder2 \div 60
        seconds == reminder2 % 60
    IN  [days |-> days, hours |-> hours, minutes |-> minutes, seconds |-> seconds]

get_time_string_based_on_duration(duration) ==
    LET parts == DurationParts(duration)
        string_date ==
            add_time_part_to_string_date_if_needed(parts.days, "day")
            \o add_time_part_to_string_date_if_needed(parts.hours, "hour")
            \o add_time_part_to_string_date_if_needed(parts.minutes, "minute")
            \o add_time_part_to_string_date_if_needed(parts.seconds, "second")
    IN  Rstrip(string_date)

\* get_body_for_up_event without the test of string_date.
get_body_for_up_event_AlwaysAfter(event) ==
    LET body0 == "Service is " \o Backquote \o "up" \o Backquote
    IN  IF ~Has(event, "downtime") THEN Raise("KeyError")
        ELSE IF ~Has(event.downtime, "started_at") THEN Raise("KeyError")
        ELSE IF Truthy(event.downtime.started_at)
        THEN IF ~Has(event.downtime, "duration") THEN Raise("KeyError")
             ELSE Ok(body0 \o " again after "
                     \o get_time_string_based_on_duration(event.downtime.duration) \o ".")
        ELSE Ok(body0 \o ".")

get_body_for_up_event(event) ==
    LET body0 == "Service is " \o Backquote \o "up" \o Backquote
    IN  IF ~Has(event, "downtime") THEN Raise("KeyError")
        ELSE LET event_downtime == event.downtime
             IN  IF ~Has(event_downtime, "started_at") THEN Raise("KeyError")
                 ELSE IF Truthy(event_downtime.started_at)
                 THEN LET body1 == body0 \o " again"
                      IN  IF ~Has(event_downtime, "duration") THEN Raise("KeyError")
                          ELSE LET string_date ==
                                       get_time_string_based_on_duration(event_downtime.duration)
                               IN  IF string_date # ""
                                   THEN Ok(body1 \o " after " \o string_date \o ".")
                                   ELSE Ok(body1 \o ".")
                 ELSE Ok(body0 \o ".")

\* get_body_for_down_event with the two replacements in the other order.
get_body_for_down_event_ZFirst(event) ==
    IF ~Has(event, "downtime") THEN Raise("KeyError")
    ELSE IF ~Has(event.downtime, "error") THEN Raise("KeyError")
    ELSE IF ~Has(event.downtime, "started_at") THEN Raise("KeyError")
    ELSE IF event.downtime.started_at.type # "str" THEN Raise("AttributeError")
    ELSE Ok("Service is " \o Backquote \o "down" \o Backquote \o ". It returned a "
            \o ToString(event.downtime.error) \o " error at "
            \o Replace(Replace(event.downtime.started_at.s, "Z", " UTC"), "T", " ")
            \o ".")

get_body_for_down_event(event) ==
    IF ~Has(event, "downtime") THEN Raise("KeyError")
    ELSE IF ~Has(event.downtime, "error") THEN Raise("KeyError")
    ELSE IF ~Has(event.downtime, "started_at") THEN Raise("KeyError")
    ELSE IF event.downtime.started_at.type # "str" THEN Raise("AttributeError")
    ELSE Ok("Service is " \o Backquote \o "down" \o Backquote \o ". It returned a "
            \o ToString(event.downtime.error) \o " error at "
            \o Replace(Replace(event.downtime.started_at.s, "T", " "), "Z", " UTC")
            \o ".")

\* The dict display that the module assigns to EVENT_TYPE_BODY_MAPPER at import.
UpdownMapperItems ==
    << <<"up", "get_body_for_up_event">>, <<"down", "get_body_for_down_event">> >>

\* EVENT_TYPE_BODY_MAPPER[event_type](event)
UpdownBody(type, event) ==
    IF ~Has(EVENT_TYPE_BODY_MAPPER, type) THEN Raise("KeyError")
    ELSE IF EVENT_TYPE_BODY_MAPPER[type] = "get_body_for_up_event"
    THEN get_body_for_up_event(event)
    ELSE get_body_for_down_event(event)

\* re.match("check.(.*)", s): the pattern is anchored at the start only; "."
\* matches any character but a newline, and the greedy group ends at the
\* first newline or at the end of the string.
RECURSIVE DotStar(_)
DotStar(s) ==
    IF Len(s) = 0 \/ CharAt(s, 1) = "\n" THEN ""
    ELSE CharAt(s, 1) \o DotStar(SubSeq(s, 2, Len(s)))

ReMatchCheck(s) ==
    IF Len(s) >= 6 /\ SubSeq(s, 1, 5) = "check" /\ CharAt(s, 6) # "\n"
    THEN [matched |-> TRUE, group1 |-> DotStar(SubSeq(s, 7, Len(s)))]
    ELSE [matched |-> FALSE, group1 |-> ""]

get_event_type(event) ==
    IF ~Has(event, "event") THEN Raise("KeyError")
    ELSE LET event_type_match == ReMatchCheck(event.event)
         IN  IF event_type_match.matched
                /\ Has(EVENT_TYPE_BODY_MAPPER, event_type_match.group1)
             THEN Ok(event_type_match.group1)
             ELSE Raise("UnsupportedWebhookEventType")

\* TOPIC_TEMPLATE.format(service_url=event["check"]["url"])
UpdownSubject(event) ==
    IF ~Has(event, "check") THEN Raise("KeyError")
    ELSE IF ~Has(event.check, "url") THEN Raise("KeyError")
    ELSE Ok(event.check.url)

(***************************************************************************)
(* gci: templates and formatters.                                          *)
(***************************************************************************)
\* A format template is a sequence of literal texts and {name} fields.
Lit(s) == [lit |-> TRUE, s |-> s]

Fld(name) == [lit |-> FALSE, s |-> name]

\* template.format(**args)
RECURSIVE FormatTemplate(_, _)
FormatTemplate(template, args) ==
    IF Len(template) = 0 THEN ""
    ELSE (IF Head(template).lit THEN Head(template).s ELSE args[Head(template).s])
         \o FormatTemplate(Tail(template), args)

\* TemplateRstrip that strips nothing.
TemplateRstrip_NoStrip(template, chars) == template

\* template.rstrip(chars) on the template's text: a field ends in "}", which
\* stops the stripping when "}" is not among chars.
RECURSIVE TemplateRstrip(_, _)
TemplateRstrip(template, chars) ==
    IF Len(template) = 0 THEN template
    ELSE LET last == template[Len(template)]
             front == SubSeq(template, 1, Len(template) - 1)
         IN  IF ~last.lit THEN template
             ELSE LET stripped == RstripChars(last.s, chars)
                  IN  IF stripped = "" THEN TemplateRstrip(front, chars)
                      ELSE Append(front, Lit(stripped))

GCI_MESSAGE_TEMPLATE ==
    << Lit("**"), Fld("actor"), Lit("** "), Fld("action"), Lit(" the task ["),
       Fld("task_name"), Lit("]("), Fld("task_url"), Lit(").") >>

build_instance_url(instance_id) ==
    "https://codein.withgoogle.com/dashboard/task-instances/" \o instance_id \o "/"

\* GCI_MESSAGE_TEMPLATE-shaped formatting with the usual task name and url.
GciFormat(template, payload_, actor, action) ==
    FormatTemplate(template,
        [actor |-> actor, action |-> action,
         task_name |-> payload_.task_definition_name,
         task_url |-> build_instance_url(payload_.task_instance)])

TaskKeys == {"task_definition_name", "task_instance"}

get_abandon_event_body(payload_) ==
    IF ~({"task_claimed_by", "event_type"} \cup TaskKeys \subseteq DOMAIN payload_)
    THEN Raise("KeyError")
    ELSE Ok(GciFormat(GCI_MESSAGE_TEMPLATE, payload_,
                      payload_.task_claimed_by, payload_.event_type \o "ed"))

get_submit_event_body(payload_) ==
    IF ~({"task_claimed_by", "event_type"} \cup TaskKeys \subseteq DOMAIN payload_)
    THEN Raise("KeyError")
    ELSE Ok(GciFormat(GCI_MESSAGE_TEMPLATE, payload_,
                      payload_.task_claimed_by, payload_.event_type \o "ted"))

get_comment_event_body(payload_) ==
    IF ~({"author", "event_type"} \cup TaskKeys \subseteq DOMAIN payload_)
    THEN Raise("KeyError")
    ELSE Ok(GciFormat(GCI_MESSAGE_TEMPLATE, payload_,
                      payload_.author, payload_.event_type \o "ed on"))

get_claim_event_body(payload_) ==
    IF ~({"task_claimed_by", "event_type"} \cup TaskKeys \subseteq DOMAIN payload_)
    THEN Raise("KeyError")
    ELSE Ok(GciFormat(GCI_MESSAGE_TEMPLATE, payload_,
                      payload_.task_claimed_by, payload_.event_type \o "ed"))

get_approve_event_body(payload_) ==
    IF ~({"author", "event_type"} \cup TaskKeys \subseteq DOMAIN payload_)
    THEN Raise("KeyError")
    ELSE Ok(GciFormat(GCI_MESSAGE_TEMPLATE, payload_,
                      payload_.author, payload_.event_type \o "d"))

get_approve_pending_pc_event_body(payload_) ==
    LET template == TemplateRstrip(GCI_MESSAGE_TEMPLATE, {"."})
                    \o << Lit(" (pending parental consent).") >>
    IN  IF ~({"author"} \cup TaskKeys \subseteq DOMAIN payload_)
        THEN Raise("KeyError")
        ELSE Ok(GciFormat(template, payload_, payload_.author, "approved"))

get_needswork_event_body(payload_) ==
    LET template == TemplateRstrip(GCI_MESSAGE_TEMPLATE, {"."})
                    \o << Lit(" for more work.") >>
    IN  IF ~({"author"} \cup TaskKeys \subseteq DOMAIN payload_)
        THEN Raise("KeyError")
        ELSE Ok(GciFormat(template, payload_, payload_.author, "submitted"))

get_extend_event_body(payload_) ==
    IF ~({"extension_days", "author"} \cup TaskKeys \subseteq DOMAIN payload_)
    THEN Raise("KeyError")
    ELSE LET template == TemplateRstrip(GCI_MESSAGE_TEMPLATE, {"."})
                         \o << Lit(" by " \o ToString(payload_.extension_days)
                                   \o " day(s).") >>
         IN  Ok(GciFormat(template, payload_, payload_.author,
                          "extended the deadline for"))

get_unassign_event_body(payload_) ==
    IF ~({"author", "task_claimed_by"} \cup TaskKeys \subseteq DOMAIN payload_)
    THEN Raise("KeyError")
    ELSE Ok(GciFormat(GCI_MESSAGE_TEMPLATE, payload_, payload_.author,
                      "unassigned **" \o payload_.task_claimed_by \o "** from"))

\* get_outoftime_event_body with the task name left out of the link.
get_outoftime_event_body_NoName(payload_) ==
    IF ~(TaskKeys \subseteq DOMAIN payload_)
    THEN Raise("KeyError")
    ELSE Ok(FormatTemplate(
                << Lit("The deadline for the task []("), Fld("task_url"),
                   Lit(") has passed.") >>,
                [task_url |-> build_instance_url(payload_.task_instance)]))

get_outoftime_event_body(payload_) ==
    IF ~(TaskKeys \subseteq DOMAIN payload_)
    THEN Raise("KeyError")
    ELSE Ok(FormatTemplate(
                << Lit("The deadline for the task ["), Fld("task_name"), Lit("]("),
                   Fld("task_url"), Lit(") has passed.") >>,
                [task_name |-> payload_.task_definition_name,
                 task_url |-> build_instance_url(payload_.task_instance)]))

\* The dict display that the module assigns to EVENTS_FUNCTION_MAPPER at import.
GciMapperItems ==
    << <<"abandon", "get_abandon_event_body">>,
       <<"approve", "get_approve_event_body">>,
       <<"approve-pending-pc", "get_approve_pending_pc_event_body">>,
       <<"claim", "get_claim_event_body">>,
       <<"comment", "get_comment_event_body">>,
       <<"extend", "get_extend_event_body">>,
       <<"needswork", "get_needswork_event_body">>,
       <<"outoftime", "get_outoftime_event_body">>,
       <<"submit", "get_submit_event_body">>,
       <<"unassign", "get_unassign_event_body">> >>

\* Calling the formatter of that name.
GciCall(formatter, payload_) ==
    CASE formatter = "get_abandon_event_body" -> get_abandon_event_body(payload_)
      [] formatter = "get_approve_event_body" -> get_approve_event_body(payload_)
      [] formatter = "get_approve_pending_pc_event_body" ->
             get_approve_pending_pc_event_body(payload_)
      [] formatter = "get_claim_event_body" -> get_claim_event_body(payload_)
      [] formatter = "get_comment_event_body" -> get_comment_event_body(payload_)
      [] formatter = "get_extend_event_body" -> get_extend_event_body(payload_)
      [] formatter = "get_needswork_event_body" -> get_needswork_event_body(payload_)
      [] formatter = "get_outoftime_event_body" -> get_outoftime_event_body(payload_)
      [] formatter = "get_submit_event_body" -> get_submit_event_body(payload_)
      [] formatter = "get_unassign_event_body" -> get_unassign_event_body(payload_)

\* get_body_based_on_event(event)(payload)
get_body_based_on_event(event, payload_) ==
    IF ~Has(EVENTS_FUNCTION_MAPPER, event) THEN Raise("KeyError")
    ELSE GciCall(EVENTS_FUNCTION_MAPPER[event], payload_)

\* get_event falling off its end (returning None) for an unregistered type.
get_event_ReturnsNone(payload_) ==
    IF ~Has(payload_, "event_type") THEN Raise("KeyError")
    ELSE IF Has(EVENTS_FUNCTION_MAPPER, payload_.event_type)
    THEN Ok(payload_.event_type)
    ELSE OkNone

get_event(payload_) ==
    IF ~Has(payload_, "event_type") THEN Raise("KeyError")
    ELSE IF Has(EVENTS_FUNCTION_MAPPER, payload_.event_type)
    THEN Ok(payload_.event_type)
    ELSE Raise("UnknownEventType")

\* GCI_TOPIC_TEMPLATE.format(student_name=payload["task_claimed_by"])
GciSubject(payload_) ==
    IF ~Has(payload_, "task_claimed_by") THEN Raise("KeyError")
    ELSE Ok(payload_.task_claimed_by)

(***************************************************************************)
(* The payloads a request may carry.                                       *)
(***************************************************************************)
Without(d, k) == [x \in DOMAIN d \ {k} |-> d[x]]

DowntimeEnded ==
    [error |-> 503, started_at |-> JStr("2020-01-01T00:00:00Z"), duration |-> 61]

DowntimeNone == [error |-> 0, started_at |-> JNull, duration |-> 0]

UpdownEvent(name, url, downtime) ==
    [event |-> name, check |-> [url |-> url], downtime |-> downtime]

\* The events of the batches: well-formed ones, ones the classifier must
\* refuse, and ones with a key missing.
UpdownEvents ==
    { UpdownEvent("check.up", "https://a.io", DowntimeEnded),
      UpdownEvent("check.up", "https://b.io", DowntimeNone),
      UpdownEvent("check.down", "https://a.io", DowntimeEnded),
      UpdownEvent("check.down", "https://b.io", DowntimeNone),
      UpdownEvent("check.ssl_invalid", "https://a.io", DowntimeEnded),
      UpdownEvent("check_up", "https://b.io", DowntimeEnded),
      UpdownEvent("up", "https://a.io", DowntimeEnded),
      Without(UpdownEvent("check.up", "https://a.io", DowntimeEnded), "event"),
      Without(UpdownEvent("check.up", "https://a.io", DowntimeEnded), "downtime"),
      [event |-> "check.down", check |-> [name |-> "a"], downtime |-> DowntimeEnded] }

RECURSIVE SeqsUpTo(_, _)
SeqsUpTo(S, n) ==
    IF n = 0 THEN {<<>>}
    ELSE LET shorter == SeqsUpTo(S, n - 1)
         IN  shorter \cup {Append(q, e) : q \in {t \in shorter : Len(t) = n - 1}, e \in S}

UpdownPayloads == SeqsUpTo(UpdownEvents, MaxBatch)

GciFull(type) ==
    [event_type |-> type, task_claimed_by |-> "student-1", author |-> "mentor-1",
     task_definition_name |-> "Sails unspread it stopped at kearney",
     task_instance |-> "6296903092273152", extension_days |-> 1]

GciEventTypeInputs == DOMAIN DictOf(GciMapperItems) \cup {"delete", "Claim", "", "approve-pending"}

GciPayloads ==
    {GciFull(t) : t \in GciEventTypeInputs}
    \cup {Without(GciFull(t), k) :
            t \in GciEventTypeInputs,
            k \in {"event_type", "task_claimed_by", "author", "task_definition_name",
                   "task_instance", "extension_days"}}

(***************************************************************************)
(* The account behind /json/settings.                                      *)
(***************************************************************************)
\* add_ratelimit_rule(10, 2, domain="authenticate_by_username")
RATELIMIT_SECONDS == 10

RATELIMIT_MAX_CALLS == 2

\* initial_password(self.example_email("hamlet"))
InitialPassword == "initial_password"

\* The rule is exhausted at time t: the last RATELIMIT_MAX_CALLS counted
\* attempts all lie inside the window that ends at t.
is_ratelimited(history, t) ==
    /\ Len(history) >= RATELIMIT_MAX_CALLS
    /\ t - history[Len(history) - RATELIMIT_MAX_CALLS + 1] < RATELIMIT_SECONDS

secs_to_freedom(history, t) ==
    history[Len(history) - RATELIMIT_MAX_CALLS + 1] + RATELIMIT_SECONDS - t

\* The limiter keeps the newest RATELIMIT_MAX_CALLS attempts.
incr_ratelimit(history, t) ==
    LET all == Append(history, t)
    IN  IF Len(all) <= RATELIMIT_MAX_CALLS THEN all
        ELSE SubSeq(all, Len(all) - RATELIMIT_MAX_CALLS + 1, Len(all))

TooManyAttempts(secs) ==
    "You're making too many attempts! Try again in " \o ToString(secs) \o " seconds."

\* The settings the tests change, with the values of a new account.
DefaultSettings ==
    [s \in {"notification_sound", "email_notifications_batching_period_seconds",
            "emojiset", "default_language", "default_view", "timezone",
            "demote_inactive_streams", "color_scheme"} |->
        CASE s = "notification_sound" -> "zulip"
          [] s = "email_notifications_batching_period_seconds" -> 120
          [] s = "emojiset" -> "google-blob"
          [] s = "default_language" -> "en"
          [] s = "default_view" -> "recent_topics"
          [] s = "timezone" -> ""
          [] s = "demote_inactive_streams" -> 1
          [] s = "color_scheme" -> 1]

\* 7 * 24 * 60 * 60
ONE_WEEK_SECONDS == 604800

\* The values a setting accepts.
ValidSetting(name, value) ==
    CASE name = "notification_sound" -> value \in {"ding", "zulip"}
      [] name = "email_notifications_batching_period_seconds" ->
            value >= 0 /\ value <= ONE_WEEK_SECONDS
      [] name = "emojiset" -> value \in {"google", "google-blob", "text", "twitter"}
      [] name = "default_language" -> value \in {"en", "de"}
      [] name = "default_view" -> value \in {"recent_topics", "all_messages"}
      [] name = "timezone" -> value \in {"", "US/Mountain"}
      [] name = "demote_inactive_streams" -> value \in {1, 2, 3}
      [] name = "color_scheme" -> value \in {1, 2, 3}

\* The error that answers an invalid value.
InvalidSettingError(name, value) ==
    CASE name = "notification_sound" -> "Invalid notification sound '" \o value \o "'"
      [] name = "email_notifications_batching_period_seconds" ->
            "Invalid email batching period: " \o ToString(value) \o " seconds"
      [] OTHER -> "Invalid " \o name

Users == {"hamlet", "cordelia"}

\* API keys, as numbers.
Keys == 1..MaxKeys

\* get_all_api_keys(user): the user's current keys.
get_all_api_keys(u) == << api_key[u] >>

\* get_user_profile_by_api_key(key): the cache first, then the stored keys.
get_user_profile_by_api_key(k) ==
    IF k \in DOMAIN key_cache THEN Ok(key_cache[k])
    ELSE IF \E u \in Users : api_key[u] = k
    THEN Ok(CHOOSE u \in Users : api_key[u] = k)
    ELSE Raise("DoesNotExist")

\* The account before any request.
AccountInit ==
    /\ now = 0
    /\ password = InitialPassword
    /\ attempts = <<>>
    /\ pw_requests = <<>>
    /\ api_key = [u \in Users |-> IF u = "hamlet" THEN 1 ELSE 2]
    /\ previous_keys = [u \in Users |-> {}]
    /\ key_cache = <<>>
    /\ regenerated = [user |-> "", api_key |-> 0, old_api_keys |-> {}, cached |-> FALSE]
    /\ settings = DefaultSettings
    /\ patch = [setting |-> "", value |-> "", before |-> "", result |-> ""]

(***************************************************************************)
(* The requests.                                                           *)
(***************************************************************************)
Reqs == 1..NumReqs

NoCall == [fn |-> "none"]

NumEvents(r) == IF kind[r] = "gci" THEN 1 ELSE Len(payload[r])

EventAt(r, i) == IF kind[r] = "gci" THEN payload[r] ELSE payload[r][i]

\* check_send_webhook_message(request, user_profile, subject, body, event_type)
check_send_webhook_message(r, i, subject_, body_, event_type_) ==
    Append(sent, [req |-> r, idx |-> i, subject |-> subject_, body |-> body_,
                  event_type |-> event_type_])

\* The view raises: the request ends with that error.
Fails(r, e) ==
    /\ response' = [response EXCEPT ![r] = e]
    /\ pc' = [pc EXCEPT ![r] = "done"]

\* Import of the two view modules: the registries and their key lists.
ImportModules ==
    /\ EVENT_TYPE_BODY_MAPPER = DictOf(UpdownMapperItems)
    /\ UPDOWN_ALL_EVENT_TYPES = KeysOf(UpdownMapperItems)
    /\ EVENTS_FUNCTION_MAPPER = DictOf(GciMapperItems)
    /\ GCI_ALL_EVENT_TYPES = KeysOf(GciMapperItems)

\* A request: request 1 carries a payload, the others are not in flight.
Init ==
    /\ ImportModules
    /\ AccountInit
    /\ \E k \in {"updown", "gci"} :
         /\ kind = [r \in Reqs |-> IF r = 1 THEN k ELSE "idle"]
         /\ \E p \in (IF k = "updown" THEN UpdownPayloads ELSE GciPayloads) :
              payload = [r \in Reqs |-> IF r = 1 THEN p ELSE <<>>]
         /\ pc = [r \in Reqs |-> IF r # 1 THEN "idle"
                                 ELSE IF k = "updown" THEN "for" ELSE "get_event"]
    /\ idx = [r \in Reqs |-> IF kind[r] = "gci" THEN 1 ELSE 0]
    /\ event_type = [r \in Reqs |-> ""]
    /\ subject = [r \in Reqs |-> ""]
    /\ body = [r \in Reqs |-> ""]
    /\ response = [r \in Reqs |-> "pending"]
    /\ sent = <<>>
    /\ call = NoCall
    /\ ret = NoResult

\* api_updown_webhook: for event in payload ... return json_success()
UpdownFor(r) ==
    /\ kind[r] = "updown" /\ pc[r] = "for"
    /\ IF idx[r] < Len(payload[r])
       THEN /\ idx' = [idx EXCEPT ![r] = idx[r] + 1]
            /\ pc' = [pc EXCEPT ![r] = "get_event_type"]
            /\ UNCHANGED response
       ELSE /\ response' = [response EXCEPT ![r] = "json_success"]
            /\ pc' = [pc EXCEPT ![r] = "done"]
            /\ UNCHANGED idx
    /\ UNCHANGED <<payload, kind, event_type, subject, body, sent, call, ret, moduleVars, accountVars>>

\* UpdownGetEventType with a failed classification skipping the event.
UpdownGetEventType_Skip(r) ==
    /\ kind[r] = "updown" /\ pc[r] = "get_event_type"
    /\ LET res == get_event_type(EventAt(r, idx[r]))
       IN  IF res.err # "none"
           THEN pc' = [pc EXCEPT ![r] = "for"] /\ UNCHANGED event_type
           ELSE /\ event_type' = [event_type EXCEPT ![r] = res.val]
                /\ pc' = [pc EXCEPT ![r] = "subject"]
    /\ UNCHANGED <<payload, kind, idx, subject, body, response, sent, call, ret, moduleVars, accountVars>>

\* send_message_for_event: event_type = get_event_type(event)
UpdownGetEventType(r) ==
    /\ kind[r] = "updown" /\ pc[r] = "get_event_type"
    /\ LET res == get_event_type(EventAt(r, idx[r]))
       IN  IF res.err # "none"
           THEN Fails(r, res.err) /\ UNCHANGED event_type
           ELSE /\ event_type' = [event_type EXCEPT ![r] = res.val]
                /\ pc' = [pc EXCEPT ![r] = "subject"]
                /\ UNCHANGED response
    /\ UNCHANGED <<payload, kind, idx, subject, body, sent, call, ret, moduleVars, accountVars>>

\* send_message_for_event: subject = TOPIC_TEMPLATE.format(...)
UpdownSubjectStep(r) ==
    /\ kind[r] = "updown" /\ pc[r] = "subject"
    /\ LET res == UpdownSubject(EventAt(r, idx[r]))
       IN  IF res.err # "none"
           THEN Fails(r, res.err) /\ UNCHANGED subject
           ELSE /\ subject' = [subject EXCEPT ![r] = res.val]
                /\ pc' = [pc EXCEPT ![r] = "body"]
                /\ UNCHANGED response
    /\ UNCHANGED <<payload, kind, idx, event_type, body, sent, call, ret, moduleVars, accountVars>>

\* UpdownBodyStep with a failed formatter skipping the event.
UpdownBodyStep_Skip(r) ==
    /\ kind[r] = "updown" /\ pc[r] = "body"
    /\ LET res == UpdownBody(event_type[r], EventAt(r, idx[r]))
       IN  IF res.err # "none"
           THEN pc' = [pc EXCEPT ![r] = "for"] /\ UNCHANGED body
           ELSE /\ body' = [body EXCEPT ![r] = res.val]
                /\ pc' = [pc EXCEPT ![r] = "send"]
    /\ UNCHANGED <<payload, kind, idx, event_type, subject, response, sent, call, ret, moduleVars, accountVars>>

\* send_message_for_event: body = EVENT_TYPE_BODY_MAPPER[event_type](event)
UpdownBodyStep(r) ==
    /\ kind[r] = "updown" /\ pc[r] = "body"
    /\ LET res == UpdownBody(event_type[r], EventAt(r, idx[r]))
       IN  IF res.err # "none"
           THEN Fails(r, res.err) /\ UNCHANGED body
           ELSE /\ body' = [body EXCEPT ![r] = res.val]
                /\ pc' = [pc EXCEPT ![r] = "send"]
                /\ UNCHANGED response
    /\ UNCHANGED <<payload, kind, idx, event_type, subject, sent, call, ret, moduleVars, accountVars>>

\* UpdownSend with the delivery put ahead of the earlier ones.
UpdownSend_Prepend(r) ==
    /\ kind[r] = "updown" /\ pc[r] = "send"
    /\ sent' = << [req |-> r, idx |-> idx[r], subject |-> subject[r], body |-> body[r],
                   event_type |-> event_type[r]] >> \o sent
    /\ pc' = [pc EXCEPT ![r] = "for"]
    /\ UNCHANGED <<payload, kind, idx, event_type, subject, body, response, call, ret, moduleVars, accountVars>>

\* send_message_for_event: check_send_webhook_message(...), then the next event
UpdownSend(r) ==
    /\ kind[r] = "updown" /\ pc[r] = "send"
    /\ sent' = check_send_webhook_message(r, idx[r], subject[r], body[r], event_type[r])
    /\ pc' = [pc EXCEPT ![r] = "for"]
    /\ UNCHANGED <<payload, kind, idx, event_type, subject, body, response, call, ret, moduleVars, accountVars>>

\* api_gci_webhook: event = get_event(payload); if event is not None
GciGetEvent(r) ==
    /\ kind[r] = "gci" /\ pc[r] = "get_event"
    /\ LET res == get_event(payload[r])
       IN  IF res.err # "none"
           THEN Fails(r, res.err) /\ UNCHANGED event_type
           ELSE /\ event_type' = [event_type EXCEPT ![r] = res.val]
                /\ pc' = [pc EXCEPT ![r] = IF res.none THEN "return" ELSE "body"]
                /\ UNCHANGED response
    /\ UNCHANGED <<payload, kind, idx, subject, body, sent, call, ret, moduleVars, accountVars>>

\* GciBodyStep with the formatter taken out of the registry (dict.pop) as it is used.
GciBodyStep_Pop(r) ==
    /\ kind[r] = "gci" /\ pc[r] = "body"
    /\ LET res == get_body_based_on_event(event_type[r], payload[r])
       IN  IF res.err # "none"
           THEN Fails(r, res.err) /\ UNCHANGED body
           ELSE /\ body' = [body EXCEPT ![r] = res.val]
                /\ pc' = [pc EXCEPT ![r] = "subject"]
                /\ UNCHANGED response
    /\ EVENTS_FUNCTION_MAPPER' =
            [t \in DOMAIN EVENTS_FUNCTION_MAPPER \ {event_type[r]} |-> EVENTS_FUNCTION_MAPPER[t]]
    /\ UNCHANGED <<payload, kind, idx, event_type, subject, sent, call, ret,
                   EVENT_TYPE_BODY_MAPPER, UPDOWN_ALL_EVENT_TYPES, GCI_ALL_EVENT_TYPES,
                   accountVars>>

\* api_gci_webhook: body = get_body_based_on_event(event)(payload)
GciBodyStep(r) ==
    /\ kind[r] = "gci" /\ pc[r] = "body"
    /\ LET res == get_body_based_on_event(event_type[r], payload[r])
       IN  IF res.err # "none"
           THEN Fails(r, res.err) /\ UNCHANGED body
           ELSE /\ body' = [body EXCEPT ![r] = res.val]
                /\ pc' = [pc EXCEPT ![r] = "subject"]
                /\ UNCHANGED response
    /\ UNCHANGED <<payload, kind, idx, event_type, subject, sent, call, ret, moduleVars, accountVars>>

\* GciSubjectStep with a fallback topic when the field is missing.
GciSubjectStep_Fallback(r) ==
    /\ kind[r] = "gci" /\ pc[r] = "subject"
    /\ subject' = [subject EXCEPT ![r] = IF Has(payload[r], "task_claimed_by")
                                         THEN payload[r].task_claimed_by
                                         ELSE "(no topic)"]
    /\ pc' = [pc EXCEPT ![r] = "send"]
    /\ UNCHANGED <<payload, kind, idx, event_type, body, response, sent, call, ret, moduleVars, accountVars>>

\* GciSubjectStep with the topic taken from the author.
GciSubjectStep_Author(r) ==
    /\ kind[r] = "gci" /\ pc[r] = "subject"
    /\ IF ~Has(payload[r], "author")
       THEN Fails(r, "KeyError") /\ UNCHANGED subject
       ELSE /\ subject' = [subject EXCEPT ![r] = payload[r].author]
            /\ pc' = [pc EXCEPT ![r] = "send"]
            /\ UNCHANGED response
    /\ UNCHANGED <<payload, kind, idx, event_type, body, sent, call, ret, moduleVars, accountVars>>

\* api_gci_webhook: subject = GCI_TOPIC_TEMPLATE.format(...)
GciSubjectStep(r) ==
    /\ kind[r] = "gci" /\ pc[r] = "subject"
    /\ LET res == GciSubject(payload[r])
       IN  IF res.err # "none"
           THEN Fails(r, res.err) /\ UNCHANGED subject
           ELSE /\ subject' = [subject EXCEPT ![r] = res.val]
                /\ pc' = [pc EXCEPT ![r] = "send"]
                /\ UNCHANGED response
    /\ UNCHANGED <<payload, kind, idx, event_type, body, sent, call, ret, moduleVars, accountVars>>

\* api_gci_webhook: check_send_webhook_message(...)
GciSend(r) ==
    /\ kind[r] = "gci" /\ pc[r] = "send"
    /\ sent' = check_send_webhook_message(r, idx[r], subject[r], body[r], event_type[r])
    /\ pc' = [pc EXCEPT ![r] = "return"]
    /\ UNCHANGED <<payload, kind, idx, event_type, subject, body, response, call, ret, moduleVars, accountVars>>

\* api_gci_webhook: return json_success()
GciReturn(r) ==
    /\ kind[r] = "gci" /\ pc[r] = "return"
    /\ response' = [response EXCEPT ![r] = "json_success"]
    /\ pc' = [pc EXCEPT ![r] = "done"]
    /\ UNCHANGED <<payload, kind, idx, event_type, subject, body, sent, call, ret, moduleVars, accountVars>>

Next ==
    \E r \in Reqs :
        \/ UpdownFor(r)
        \/ UpdownGetEventType(r)
        \/ UpdownSubjectStep(r)
        \/ UpdownBodyStep(r)
        \/ UpdownSend(r)
        \/ GciGetEvent(r)
        \/ GciBodyStep(r)
        \/ GciSubjectStep(r)
        \/ GciSend(r)
        \/ GciReturn(r)

Spec == Init /\ [][Next]_vars

(***************************************************************************)
(* Several requests in flight at once: the server runs the views of        *)
(* different requests interleaved, statement by statement, and all of them *)
(* share the module globals.                                               *)
(***************************************************************************)
InterleavedInputs ==
    << [kind |-> "updown",
       payload |-> << UpdownEvent("check.up", "https://a.io", DowntimeEnded),
                      UpdownEvent("check.down", "https://a.io", DowntimeEnded) >>],
      [kind |-> "updown",
       payload |-> << UpdownEvent("check.down", "https://b.io", DowntimeNone) >>],
      [kind |-> "updown",
       payload |-> << UpdownEvent("check.ssl_invalid", "https://a.io", DowntimeEnded) >>],
      [kind |-> "gci", payload |-> GciFull("claim")],
      [kind |-> "gci", payload |-> GciFull("extend")],
      [kind |-> "gci", payload |-> GciFull("delete")],
      [kind |-> "gci", payload |-> Without(GciFull("claim"), "task_claimed_by")] >>

InterleavedInit ==
    /\ ImportModules
    /\ AccountInit
    /\ \E in \in [Reqs -> DOMAIN InterleavedInputs] :
         /\ kind = [r \in Reqs |-> InterleavedInputs[in[r]].kind]
         /\ payload = [r \in Reqs |-> InterleavedInputs[in[r]].payload]
    /\ pc = [r \in Reqs |-> IF kind[r] = "updown" THEN "for" ELSE "get_event"]
    /\ idx = [r \in Reqs |-> IF kind[r] = "gci" THEN 1 ELSE 0]
    /\ event_type = [r \in Reqs |-> ""]
    /\ subject = [r \in Reqs |-> ""]
    /\ body = [r \in Reqs |-> ""]
    /\ response = [r \in Reqs |-> "pending"]
    /\ sent = <<>>
    /\ call = NoCall
    /\ ret = NoResult

SpecInterleaved == InterleavedInit /\ [][Next]_vars

(***************************************************************************)
(* Password changes through PATCH /json/settings, with                     *)
(* RATE_LIMITING_AUTHENTICATE on.                                          *)
(***************************************************************************)
\* No webhook request is in flight.
NoRequests ==
    /\ kind = [r \in Reqs |-> "idle"]
    /\ payload = [r \in Reqs |-> <<>>]
    /\ pc = [r \in Reqs |-> "idle"]
    /\ idx = [r \in Reqs |-> 0]
    /\ event_type = [r \in Reqs |-> ""]
    /\ subject = [r \in Reqs |-> ""]
    /\ body = [r \in Reqs |-> ""]
    /\ response = [r \in Reqs |-> "pending"]
    /\ sent = <<>>
    /\ call = NoCall
    /\ ret = NoResult

PasswordInit ==
    /\ ImportModules
    /\ AccountInit
    /\ NoRequests

\* ChangePassword with the limiter asked only when the old password is wrong.
ChangePassword_AuthFirst(old_password, new_password) ==
    /\ Len(pw_requests) < MaxPwRequests
    /\ LET limited == is_ratelimited(attempts, now) /\ old_password # password
           result == IF limited THEN TooManyAttempts(secs_to_freedom(attempts, now))
                     ELSE IF old_password # password THEN "Wrong password!"
                     ELSE "success"
       IN  /\ attempts' = IF limited THEN attempts ELSE incr_ratelimit(attempts, now)
           /\ password' = IF result = "success" THEN new_password ELSE password
           /\ pw_requests' = Append(pw_requests,
                    [time |-> now, old_ok |-> old_password = password, result |-> result,
                     before |-> password, after |-> password'])
    /\ UNCHANGED <<reqVars, call, ret, moduleVars, now, keyVars, settingVars>>

\* PATCH /json/settings with old_password and new_password: the limiter is
\* asked first, then the old password is checked, then the new one is stored.
ChangePassword(old_password, new_password) ==
    /\ Len(pw_requests) < MaxPwRequests
    /\ LET limited == is_ratelimited(attempts, now)
           result == IF limited THEN TooManyAttempts(secs_to_freedom(attempts, now))
                     ELSE IF old_password # password THEN "Wrong password!"
                     ELSE "success"
       IN  /\ attempts' = IF limited THEN attempts ELSE incr_ratelimit(attempts, now)
           /\ password' = IF result = "success" THEN new_password ELSE password
           /\ pw_requests' = Append(pw_requests,
                    [time |-> now, old_ok |-> old_password = password, result |-> result,
                     before |-> password, after |-> password'])
    /\ UNCHANGED <<reqVars, call, ret, moduleVars, now, keyVars, settingVars>>

\* Time passes.
Tick ==
    /\ now < MaxClock
    /\ now' = now + 1
    /\ UNCHANGED <<reqVars, call, ret, moduleVars, password, attempts, pw_requests,
                   keyVars, settingVars>>

PasswordNext ==
    \/ \E old_password \in {"bad_password", password}, new_password \in {"ignored", "foobar1"} :
            ChangePassword(old_password, new_password)
    \/ Tick

SpecPassword == PasswordInit /\ [][PasswordNext]_vars

(***************************************************************************)
(* API keys: POST /json/users/me/api_key/regenerate and the lookups that   *)
(* authenticate by key.                                                    *)
(***************************************************************************)
ApiKeyInit ==
    /\ ImportModules
    /\ AccountInit
    /\ NoRequests

IssuedKeys ==
    {api_key[u] : u \in Users} \cup UNION {previous_keys[u] : u \in Users}

\* RegenerateApiKey with the old key left in the authentication cache.
RegenerateApiKey_NoFlush(u, new_key) ==
    /\ new_key \notin IssuedKeys
    /\ api_key' = [api_key EXCEPT ![u] = new_key]
    /\ previous_keys' = [previous_keys EXCEPT ![u] = @ \cup {api_key[u]}]
    /\ key_cache' = key_cache
    /\ regenerated' = [user |-> u, api_key |-> new_key,
                       old_api_keys |-> previous_keys'[u],
                       cached |-> api_key[u] \in DOMAIN key_cache]
    /\ UNCHANGED <<reqVars, call, ret, moduleVars, passwordVars, settingVars>>

\* POST /json/users/me/api_key/regenerate by user u: a freshly generated key
\* replaces the stored one, the old key leaves the cache, the new key is returned.
RegenerateApiKey(u, new_key) ==
    /\ new_key \notin IssuedKeys
    /\ api_key' = [api_key EXCEPT ![u] = new_key]
    /\ previous_keys' = [previous_keys EXCEPT ![u] = @ \cup {api_key[u]}]
    /\ key_cache' = [k \in DOMAIN key_cache \ {api_key[u]} |-> key_cache[k]]
    /\ regenerated' = [user |-> u, api_key |-> new_key,
                       old_api_keys |-> previous_keys'[u],
                       cached |-> api_key[u] \in DOMAIN key_cache]
    /\ UNCHANGED <<reqVars, call, ret, moduleVars, passwordVars, settingVars>>

\* A request authenticated by key k: get_user_profile_by_api_key(k), whose
\* result stays in the cache.
LookupApiKey(k) ==
    /\ LET res == get_user_profile_by_api_key(k)
       IN  key_cache' = IF res.err = "none" /\ k \notin DOMAIN key_cache
                        THEN [x \in DOMAIN key_cache \cup {k} |->
                                 IF x = k THEN res.val ELSE key_cache[x]]
                        ELSE key_cache
    /\ UNCHANGED <<reqVars, call, ret, moduleVars, passwordVars, settingVars,
                   api_key, previous_keys, regenerated>>

ApiKeyNext ==
    \/ \E u \in Users, new_key \in Keys : RegenerateApiKey(u, new_key)
    \/ \E k \in Keys : LookupApiKey(k)

SpecApiKey == ApiKeyInit /\ [][ApiKeyNext]_vars

(***************************************************************************)
(* PATCH /json/settings with one setting.                                  *)
(***************************************************************************)
\* The values the requests carry for each setting: valid and invalid ones.
SettingInputs ==
    [s \in DOMAIN DefaultSettings |->
        CASE s = "notification_sound" -> {"ding", "zulip", "invalid"}
          [] s = "email_notifications_batching_period_seconds" ->
                {0 - 1, 0, 120, 300, ONE_WEEK_SECONDS, ONE_WEEK_SECONDS + 1,
                 ONE_WEEK_SECONDS + 10}
          [] s = "emojiset" -> {"google", "google-blob", "text", "twitter",
                                "apple", "emojione", "invalid_emojiset"}
          [] s = "default_language" -> {"de", "en", "invalid_default_language"}
          [] s = "default_view" -> {"all_messages", "recent_topics", "invalid_default_view"}
          [] s = "timezone" -> {"US/Mountain", "", "invalid_timezone"}
          [] s = "demote_inactive_streams" -> {1, 2, 3, 100}
          [] s = "color_scheme" -> {1, 2, 3, 100}]

SettingsInit ==
    /\ ImportModules
    /\ AccountInit
    /\ NoRequests

\* PatchSetting with the value stored before it is validated.
PatchSetting_SaveFirst(name, value) ==
    /\ settings' = [settings EXCEPT ![name] = value]
    /\ patch' = [setting |-> name, value |-> value, before |-> settings[name],
                 result |-> IF ValidSetting(name, value) THEN "success"
                            ELSE InvalidSettingError(name, value)]
    /\ UNCHANGED <<reqVars, call, ret, moduleVars, passwordVars, keyVars>>

\* PATCH /json/settings {name: value}: the value is validated, then stored.
PatchSetting(name, value) ==
    /\ settings' = IF ValidSetting(name, value) THEN [settings EXCEPT ![name] = value]
                   ELSE settings
    /\ patch' = [setting |-> name, value |-> value, before |-> settings[name],
                 result |-> IF ValidSetting(name, value) THEN "success"
                            ELSE InvalidSettingError(name, value)]
    /\ UNCHANGED <<reqVars, call, ret, moduleVars, passwordVars, keyVars>>

SettingsNext ==
    \E name \in DOMAIN SettingInputs : \E value \in SettingInputs[name] :
        PatchSetting(name, value)

SpecSettings == SettingsInit /\ [][SettingsNext]_vars

(***************************************************************************)
(* Direct calls of the pure functions, one call per behaviour.             *)
(***************************************************************************)
HourInputs == {0, 1, 2, 23}

\* Total seconds: every remainder up to MaxDuration on top of whole hours and days.
DurationInputs ==
    {dd * 86400 + hh * 3600 + rr : dd \in 0..MaxDays, hh \in HourInputs, rr \in 0..MaxDuration}

StartedAtInputs ==
    { JNull, JStr(""), JStr("2020-01-01T00:00:00Z"), JStr("2016-02-07T13:11:43Z"),
      JStr("2020-01-01T00:00:00+00:00"), JStr("ZT1Z"), JStr("TZ") }

UpEventInputs ==
    {UpdownEvent("check.up", "https://updown.io", [error |-> 0, started_at |-> sa, duration |-> d]) :
        sa \in {JNull, JStr(""), JStr("2020-01-01T00:00:00Z")}, d \in DurationInputs}
    \cup {UpdownEvent("check.up", "https://updown.io", [error |-> 0, started_at |-> sa]) :
            sa \in StartedAtInputs}
    \cup {UpdownEvent("check.up", "https://updown.io", [error |-> 0, duration |-> 61]),
          Without(UpdownEvent("check.up", "https://updown.io", DowntimeEnded), "downtime")}

DownEventInputs ==
    {UpdownEvent("check.down", "https://updown.io", [error |-> e, started_at |-> sa, duration |-> 0]) :
        e \in {503, 500, 404}, sa \in StartedAtInputs}
    \cup {UpdownEvent("check.down", "https://updown.io", [error |-> 503, duration |-> 0]),
          UpdownEvent("check.down", "https://updown.io",
                      [started_at |-> JStr("2020-01-01T00:00:00Z"), duration |-> 0]),
          Without(UpdownEvent("check.down", "https://updown.io", DowntimeEnded), "downtime")}

EventNamePrefixes == {"check.", "check_", "checkX", "check\n", "check", "Check.", "xcheck.", " check.", ""}

EventNameSuffixes ==
    {"up", "down", "", "ssl_invalid", "performance_drop", "up ", " up", "UP", "upup",
     "up\nx", "down\n", "\nup", ".up"}

EventNameInputs == {p \o x : p \in EventNamePrefixes, x \in EventNameSuffixes}

GciPayload(type, student, author, name, instance, days) ==
    [event_type |-> type, task_claimed_by |-> student, author |-> author,
     task_definition_name |-> name, task_instance |-> instance, extension_days |-> days]

GciFormatInputs ==
    {GciPayload(t, st, au, na, inst, dy) :
        t \in DOMAIN DictOf(GciMapperItems), st \in {"student-1", "eeshangarg"},
        au \in {"mentor-1"}, na \in {"Sails unspread it stopped at kearney", "t"},
        inst \in {"6296903092273152", "1"}, dy \in {1, 7}}
    \cup {x \in GciPayloads : Has(x, "event_type") /\ x.event_type \in DOMAIN DictOf(GciMapperItems)}

Calls ==
    {[fn |-> "get_time_string_based_on_duration", arg |-> d] : d \in DurationInputs}
    \cup {[fn |-> "get_body_for_up_event", arg |-> e] : e \in UpEventInputs}
    \cup {[fn |-> "get_body_for_down_event", arg |-> e] : e \in DownEventInputs}
    \cup {[fn |-> "get_event_type", arg |-> [event |-> n]] : n \in EventNameInputs}
    \cup {[fn |-> "get_event_type", arg |-> [check |-> [url |-> "https://updown.io"]]]}
    \cup {[fn |-> "get_event", arg |-> x] : x \in GciPayloads}
    \cup {[fn |-> "get_body_based_on_event", arg |-> x] : x \in GciFormatInputs}

FormatInit ==
    /\ ImportModules
    /\ AccountInit
    /\ kind = [r \in Reqs |-> "idle"]
    /\ payload = [r \in Reqs |-> <<>>]
    /\ pc = [r \in Reqs |-> "idle"]
    /\ idx = [r \in Reqs |-> 0]
    /\ event_type = [r \in Reqs |-> ""]
    /\ subject = [r \in Reqs |-> ""]
    /\ body = [r \in Reqs |-> ""]
    /\ response = [r \in Reqs |-> "pending"]
    /\ sent = <<>>
    /\ call \in Calls
    /\ ret = NoResult

CallTimeString ==
    /\ call.fn = "get_time_string_based_on_duration" /\ ret = NoResult
    /\ ret' = Ok(get_time_string_based_on_duration(call.arg))
    /\ UNCHANGED <<reqVars, call, moduleVars, accountVars>>

CallUpBody ==
    /\ call.fn = "get_body_for_up_event" /\ ret = NoResult
    /\ ret' = get_body_for_up_event(call.arg)
    /\ UNCHANGED <<reqVars, call, moduleVars, accountVars>>

CallDownBody ==
    /\ call.fn = "get_body_for_down_event" /\ ret = NoResult
    /\ ret' = get_body_for_down_event(call.arg)
    /\ UNCHANGED <<reqVars, call, moduleVars, accountVars>>

CallGetEventType ==
    /\ call.fn = "get_event_type" /\ ret = NoResult
    /\ ret' = get_event_type(call.arg)
    /\ UNCHANGED <<reqVars, call, moduleVars, accountVars>>

CallGetEvent ==
    /\ call.fn = "get_event" /\ ret = NoResult
    /\ ret' = get_event(call.arg)
    /\ UNCHANGED <<reqVars, call, moduleVars, accountVars>>

\* get_body_based_on_event(event)(payload) with event the payload's own type.
CallGciBody ==
    /\ call.fn = "get_body_based_on_event" /\ ret = NoResult
    /\ ret' = get_body_based_on_event(call.arg.event_type, call.arg)
    /\ UNCHANGED <<reqVars, call, moduleVars, accountVars>>

FormatNext ==
    \/ CallTimeString
    \/ CallUpBody
    \/ CallDownBody
    \/ CallGetEventType
    \/ CallGetEvent
    \/ CallGciBody

SpecFormat == FormatInit /\ [][FormatNext]_vars

(***************************************************************************)
(* Vocabulary of the properties.                                           *)
(***************************************************************************)
\* The deliveries made for request r, in the order they were made.
SentOf(r) == SelectSeq(sent, LAMBDA e : e.req = r)

\* Whether event i of request r has been delivered.
Delivered(r, i) == \E k \in 1..Len(sent) : sent[k].req = r /\ sent[k].idx = i

\* The classifier's verdict on event i of request r.
Classify(r, i) ==
    IF kind[r] = "gci" THEN get_event(payload[r]) ELSE get_event_type(payload[r][i])

ClassifierErrors == {"UnknownEventType", "UnsupportedWebhookEventType"}

\* The request has ended, by a return or by an exception.
Ended(r) == pc[r] = "done"

(***************************************************************************)
(* C1.  Within one updown request the deliveries follow the payload array: *)
(* the k-th delivery is that of event k; an event is classified only when  *)
(* every event before it has been delivered; when classification of event  *)
(* k fails, the events before k have been delivered; and a delivery, once  *)
(* made, stays in the record of deliveries.                                *)
(***************************************************************************)
C1_InOrder ==
    \A r \in Reqs :
        kind[r] = "updown" =>
            /\ \A k \in 1..Len(SentOf(r)) : SentOf(r)[k].idx = k
            /\ pc[r] = "get_event_type" => Len(SentOf(r)) = idx[r] - 1
            /\ response[r] = "UnsupportedWebhookEventType" =>
                   /\ Len(SentOf(r)) = idx[r] - 1
                   /\ \A i \in 1..(idx[r] - 1) : Delivered(r, i)

C1_NothingUndone ==
    /\ Len(sent') >= Len(sent)
    /\ SubSeq(sent', 1, Len(sent)) = sent

\* C1: deliveries in payload order at every moment, and no delivery ever undone.
C1_BatchOrder == []C1_InOrder /\ [][C1_NothingUndone]_vars

C1_Witness ==
    \E r \in Reqs :
        /\ kind[r] = "updown"
        /\ response[r] = "UnsupportedWebhookEventType"
        /\ idx[r] = 3
        /\ Len(SentOf(r)) = 2
        /\ SentOf(r)[1].subject # SentOf(r)[2].subject

(***************************************************************************)
(* C2.  An event whose classification fails is never delivered, the        *)
(* request does not get past it, and the request ends with the             *)
(* classifier's error (UnknownEventType for gci,                           *)
(* UnsupportedWebhookEventType for updown), never with json_success.       *)
(***************************************************************************)
C2_ClassifierFailure ==
    \A r \in Reqs :
        kind[r] \in {"updown", "gci"} =>
            \A i \in 1..NumEvents(r) :
                Classify(r, i).err \in ClassifierErrors =>
                    /\ ~Delivered(r, i)
                    /\ response[r] # "json_success"
                    /\ idx[r] <= i
                    /\ (idx[r] = i /\ pc[r] \notin {"get_event_type", "get_event"}) =>
                           /\ Ended(r)
                           /\ response[r] = IF kind[r] = "gci"
                                            THEN "UnknownEventType"
                                            ELSE "UnsupportedWebhookEventType"

C2_Witness ==
    \E r \in Reqs :
        /\ kind[r] = "updown"
        /\ Ended(r)
        /\ idx[r] = 2
        /\ payload[r][2].event = "check.ssl_invalid"
        /\ response[r] = "UnsupportedWebhookEventType"
        /\ Len(sent) = 1

(***************************************************************************)
(* C3.  Whether event j of an updown request goes through classification,  *)
(* topic and formatter without an exception, and the exception it raises   *)
(* otherwise.                                                              *)
(***************************************************************************)
FailureOf(r, j) ==
    LET ev == payload[r][j]
        t == get_event_type(ev)
    IN  IF t.err # "none" THEN t.err
        ELSE IF UpdownSubject(ev).err # "none" THEN UpdownSubject(ev).err
        ELSE UpdownBody(t.val, ev).err

Processable(r, j) == FailureOf(r, j) = "none"

FirstFailure(r) ==
    CHOOSE j \in 1..Len(payload[r]) :
        /\ ~Processable(r, j)
        /\ \A k \in 1..(j - 1) : Processable(r, k)

\* C3 as claimed: a failure aborts the failing event only, so that when the
\* request has ended every event that can be processed has been delivered.
C3_AbortsCurrentEventOnly ==
    \A r \in Reqs :
        (kind[r] = "updown" /\ Ended(r)) =>
            \A j \in 1..Len(payload[r]) : Processable(r, j) => Delivered(r, j)

\* C3 as amended: the first failure ends the request with that exception;
\* exactly the events before it are delivered (and stay delivered), no event
\* after it is classified, formatted or delivered.
C3_FirstFailureEndsRequest ==
    \A r \in Reqs :
        (kind[r] = "updown" /\ Ended(r)) =>
            IF \A j \in 1..Len(payload[r]) : Processable(r, j)
            THEN /\ response[r] = "json_success"
                 /\ \A j \in 1..Len(payload[r]) : Delivered(r, j)
            ELSE /\ idx[r] = FirstFailure(r)
                 /\ response[r] = FailureOf(r, FirstFailure(r))
                 /\ Len(SentOf(r)) = FirstFailure(r) - 1
                 /\ \A j \in 1..Len(payload[r]) : Delivered(r, j) <=> j < FirstFailure(r)

C3_Witness ==
    \E r \in Reqs :
        /\ kind[r] = "updown"
        /\ Ended(r)
        /\ Len(payload[r]) = 3
        /\ idx[r] = 2
        /\ response[r] = "KeyError"
        /\ Processable(r, 3)
        /\ Delivered(r, 1)
        /\ ~Delivered(r, 3)

(***************************************************************************)
(* C4.  Every delivery is that of one event of its request, which the      *)
(* classifier accepted and the formatter formatted, and carries that       *)
(* event's topic field, body and type; no event is delivered twice; a      *)
(* request answered json_success has delivered each of its events.         *)
(***************************************************************************)
TopicField(r, ev) ==
    IF kind[r] = "gci"
    THEN IF Has(ev, "task_claimed_by") THEN Ok(ev.task_claimed_by) ELSE Raise("KeyError")
    ELSE IF Has(ev, "check") /\ Has(ev.check, "url") THEN Ok(ev.check.url)
    ELSE Raise("KeyError")

FormattedBody(r, type, ev) ==
    IF kind[r] = "gci" THEN get_body_based_on_event(type, ev) ELSE UpdownBody(type, ev)

\* C4: one delivery per accepted event, with that event's topic, body and type.
C4_OneDeliveryPerEvent ==
    /\ \A k \in 1..Len(sent) :
           LET e == sent[k]
           IN  /\ e.req \in Reqs
               /\ e.idx \in 1..NumEvents(e.req)
               /\ Classify(e.req, e.idx) = Ok(e.event_type)
               /\ TopicField(e.req, EventAt(e.req, e.idx)) = Ok(e.subject)
               /\ FormattedBody(e.req, e.event_type, EventAt(e.req, e.idx)) = Ok(e.body)
    /\ \A j, k \in 1..Len(sent) :
           (sent[j].req = sent[k].req /\ sent[j].idx = sent[k].idx) => j = k
    /\ \A r \in Reqs :
           response[r] = "json_success" => Len(SentOf(r)) = NumEvents(r)

C4_Witness ==
    \E r \in Reqs :
        /\ kind[r] = "updown"
        /\ response[r] = "json_success"
        /\ Len(SentOf(r)) = 2
        /\ SentOf(r)[1].event_type # SentOf(r)[2].event_type
        /\ SentOf(r)[1].subject # SentOf(r)[2].subject

(***************************************************************************)
(* Vocabulary of the properties of the direct calls.                       *)
(***************************************************************************)
\* The direct call of fn has returned or raised.
Called(fn) == call.fn = fn /\ ret # NoResult

\* The direct call of fn has returned a value.
Returned(fn) == call.fn = fn /\ ret.err = "none"

(***************************************************************************)
(* C5.  As claimed: get_event_type returns <type> exactly for the event    *)
(* names "check.up" and "check.down" (the literal prefix "check." followed *)
(* by nothing but a registered type), and raises                           *)
(* UnsupportedWebhookEventType for every other event name.                 *)
(***************************************************************************)
C5_DottedFormOnly ==
    (Called("get_event_type") /\ Has(call.arg, "event")) =>
        IF call.arg.event \in {"check.up", "check.down"}
        THEN ret = Ok(SubSeq(call.arg.event, 7, Len(call.arg.event)))
        ELSE ret = Raise("UnsupportedWebhookEventType")

(***************************************************************************)
(* C6.  get_event hands back the payload's event_type when it is one of    *)
(* the ten registered types and raises UnknownEventType for any other      *)
(* string; it never returns None, so a gci request answered json_success   *)
(* has delivered its message; gci requests never end with the updown       *)
(* error kind, nor updown requests with the gci one.                       *)
(***************************************************************************)
TenGciTypes ==
    {"abandon", "approve", "approve-pending-pc", "claim", "comment", "extend",
     "needswork", "outoftime", "submit", "unassign"}

\* C6: get_event accepts exactly the ten registered types and never returns None.
C6_GciClassifier ==
    \A r \in Reqs :
        /\ kind[r] = "gci" =>
               /\ (pc[r] # "get_event" /\ Has(payload[r], "event_type")) =>
                      IF payload[r].event_type \in TenGciTypes
                      THEN /\ event_type[r] = payload[r].event_type
                           /\ response[r] # "UnknownEventType"
                      ELSE /\ Ended(r)
                           /\ response[r] = "UnknownEventType"
                           /\ SentOf(r) = <<>>
               /\ pc[r] = "return" => Delivered(r, 1)
               /\ response[r] = "json_success" => Len(SentOf(r)) = 1
               /\ response[r] # "UnsupportedWebhookEventType"
        /\ kind[r] = "updown" => response[r] # "UnknownEventType"

C6_Witness ==
    \E r \in Reqs :
        /\ kind[r] = "gci"
        /\ Ended(r)
        /\ Has(payload[r], "event_type")
        /\ payload[r].event_type = "approve-pending"
        /\ response[r] = "UnknownEventType"
        /\ sent = <<>>

(***************************************************************************)
(* C7.  get_body_for_up_event returns one of three bodies: the plain one   *)
(* when started_at is null or empty (with or without a duration), the      *)
(* "again" one without a duration clause when started_at is set and the    *)
(* duration string is empty (duration 0), and the "again after" one with   *)
(* the duration string otherwise.                                          *)
(***************************************************************************)
C7_UpBodies ==
    Called("get_body_for_up_event") =>
        LET ev == call.arg
            up == "Service is " \o Backquote \o "up" \o Backquote
        IN  IF ~Has(ev, "downtime") \/ ~Has(ev.downtime, "started_at")
            THEN ret.err = "KeyError"
            ELSE IF ev.downtime.started_at \in {JNull, JStr("")}
            THEN ret = Ok(up \o ".")
            ELSE IF ~Has(ev.downtime, "duration")
            THEN ret.err = "KeyError"
            ELSE IF get_time_string_based_on_duration(ev.downtime.duration) = ""
            THEN ret = Ok(up \o " again.") /\ ev.downtime.duration = 0
            ELSE /\ ret = Ok(up \o " again after "
                             \o get_time_string_based_on_duration(ev.downtime.duration)
                             \o ".")
                 /\ ev.downtime.duration # 0

C7_Witness ==
    /\ Returned("get_body_for_up_event")
    /\ call.arg.downtime.started_at = JStr("2020-01-01T00:00:00Z")
    /\ call.arg.downtime.duration = 0
    /\ ret.val = "Service is " \o Backquote \o "up" \o Backquote \o " again."

(***************************************************************************)
(* C8.  The duration string is the components days, hours, minutes,        *)
(* seconds in that order, each zero component left out, "1 <unit>" for 1   *)
(* and "n <unit>s" for n > 1, joined by single spaces; it is empty exactly *)
(* for duration 0.                                                         *)
(***************************************************************************)
ExpectedPart(n, unit) ==
    IF n = 0 THEN <<>>
    ELSE IF n = 1 THEN << "1 " \o unit >>
    ELSE << ToString(n) \o " " \o unit \o "s" >>

RECURSIVE JoinWithSpace(_)
JoinWithSpace(parts) ==
    IF Len(parts) = 0 THEN ""
    ELSE IF Len(parts) = 1 THEN parts[1]
    ELSE parts[1] \o " " \o JoinWithSpace(Tail(parts))

ExpectedDuration(d) ==
    JoinWithSpace(ExpectedPart(d \div 86400, "day")
                  \o ExpectedPart((d % 86400) \div 3600, "hour")
                  \o ExpectedPart((d % 3600) \div 60, "minute")
                  \o ExpectedPart(d % 60, "second"))

\* C8: the duration string is the space-joined non-zero components, empty only for 0.
C8_DurationString ==
    (Called("get_time_string_based_on_duration") /\ call.arg >= 0) =>
        /\ ret = Ok(ExpectedDuration(call.arg))
        /\ ret.val = "" <=> call.arg = 0
        /\ ~StartsWith(ret.val, " ") /\ ~EndsWith(ret.val, " ")
        /\ ~Contains(ret.val, "  ")
        /\ call.arg = 1 => ret.val = "1 second"
        /\ call.arg = 61 => ret.val = "1 minute 1 second"
        /\ call.arg = 90000 => ret.val = "1 day 1 hour"

C8_Witness ==
    /\ Returned("get_time_string_based_on_duration")
    /\ call.arg = 90000
    /\ ret.val = "1 day 1 hour"

(***************************************************************************)
(* C9.  The body of a "down" event.                                        *)
(***************************************************************************)
DownPrefix(error) ==
    "Service is " \o Backquote \o "down" \o Backquote \o ". It returned a "
    \o ToString(error) \o " error at "

\* Every T of s as a space and every Z of s as " UTC", the rest as it is.
RECURSIVE EveryTandZ(_)
EveryTandZ(s) ==
    IF Len(s) = 0 THEN ""
    ELSE (CASE CharAt(s, 1) = "T" -> " "
            [] CharAt(s, 1) = "Z" -> " UTC"
            [] OTHER -> CharAt(s, 1))
         \o EveryTandZ(Tail(s))

\* Every T of s as a space and a last character Z as " UTC", the rest as it is.
TrailingZ(s) ==
    IF EndsWith(s, "Z")
    THEN Replace(SubSeq(s, 1, Len(s) - 1), "T", " ") \o " UTC"
    ELSE Replace(s, "T", " ")

\* C9 as claimed: for error 503 at 2020-01-01T00:00:00Z the body has two
\* spaces before UTC; in general T becomes a space and the trailing Z
\* becomes " UTC", every other character unchanged.
C9_TwoSpacesTrailingZ ==
    Returned("get_body_for_down_event") =>
        LET dt == call.arg.downtime
        IN  /\ (dt.error = 503 /\ dt.started_at.s = "2020-01-01T00:00:00Z") =>
                   ret.val = "Service is " \o Backquote \o "down" \o Backquote
                             \o ". It returned a 503 error at 2020-01-01 00:00:00  UTC."
            /\ ret.val = DownPrefix(dt.error) \o TrailingZ(dt.started_at.s) \o "."

\* C9 as amended: for error 503 at 2020-01-01T00:00:00Z the body has one
\* space before UTC; in general every T becomes a space and every Z becomes
\* " UTC", every other character unchanged.
C9_OneSpaceEveryZ ==
    Called("get_body_for_down_event") =>
        LET ev == call.arg
        IN  IF ~Has(ev, "downtime") \/ ~({"error", "started_at"} \subseteq DOMAIN ev.downtime)
            THEN ret.err = "KeyError"
            ELSE IF ev.downtime.started_at = JNull
            THEN ret.err = "AttributeError"
            ELSE /\ ret = Ok(DownPrefix(ev.downtime.error)
                             \o EveryTandZ(ev.downtime.started_at.s) \o ".")
                 /\ (ev.downtime.error = 503
                     /\ ev.downtime.started_at.s = "2020-01-01T00:00:00Z") =>
                        ret.val = "Service is " \o Backquote \o "down" \o Backquote
                                  \o ". It returned a 503 error at 2020-01-01 00:00:00 UTC."

C9_Witness ==
    /\ Returned("get_body_for_down_event")
    /\ call.arg.downtime.error = 503
    /\ call.arg.downtime.started_at = JStr("2020-01-01T00:00:00Z")
    /\ ret.val = "Service is " \o Backquote \o "down" \o Backquote
                 \o ". It returned a 503 error at 2020-01-01 00:00:00 UTC."

(***************************************************************************)
(* C10.  What a formatted body contains.                                   *)
(***************************************************************************)
GciLink(payload_) ==
    "[" \o payload_.task_definition_name
    \o "](https://codein.withgoogle.com/dashboard/task-instances/"
    \o payload_.task_instance \o "/)"

\* C10 as claimed: every body of either integration is non-empty and holds
\* the task or service name and a Markdown link [name](url).
C10_EveryBodyHasNameAndLink ==
    /\ Returned("get_body_based_on_event") =>
           /\ ret.val # ""
           /\ Contains(ret.val, call.arg.task_definition_name)
           /\ Contains(ret.val, GciLink(call.arg))
    /\ (Returned("get_body_for_up_event") \/ Returned("get_body_for_down_event")) =>
           /\ ret.val # ""
           /\ Contains(ret.val, call.arg.check.url)
           /\ Contains(ret.val, "[" \o call.arg.check.url \o "](")

\* C10 as amended: every gci body is non-empty and holds the task name and
\* the link [name](url) once; the updown bodies are non-empty sentences
\* "Service is ..." that hold neither the service's url nor a link.
C10_GciBodyHasNameAndLink ==
    /\ Called("get_body_based_on_event") =>
           IF ~(TaskKeys \subseteq DOMAIN call.arg)
           THEN ret.err = "KeyError"
           ELSE ret.err = "none" =>
                    /\ ret.val # ""
                    /\ Contains(ret.val, call.arg.task_definition_name)
                    /\ Occurrences(ret.val, GciLink(call.arg)) = 1
    /\ (Returned("get_body_for_up_event") \/ Returned("get_body_for_down_event")) =>
           /\ ret.val # ""
           /\ StartsWith(ret.val, "Service is " \o Backquote)
           /\ EndsWith(ret.val, ".")
           /\ ~Contains(ret.val, call.arg.check.url)
           /\ ~Contains(ret.val, "](")

C10_Witness ==
    /\ Returned("get_body_based_on_event")
    /\ call.arg.event_type = "outoftime"
    /\ call.arg.task_definition_name = "t"
    /\ ret.val = "The deadline for the task [t](https://codein.withgoogle.com/dashboard/task-instances/1/) has passed."

(***************************************************************************)
(* C11.  The body of each gci event type, written out: the actor in bold,  *)
(* the action, the link to the task, the trailing context of               *)
(* approve-pending-pc, needswork and extend, the sentence of outoftime;    *)
(* one period at the end; the url of the task instance.                    *)
(***************************************************************************)
GciSentence(actor, action, payload_, tail) ==
    "**" \o actor \o "** " \o action \o " the task " \o GciLink(payload_) \o tail

ExpectedGciBody(p) ==
    CASE p.event_type = "abandon" -> GciSentence(p.task_claimed_by, "abandoned", p, ".")
      [] p.event_type = "claim" -> GciSentence(p.task_claimed_by, "claimed", p, ".")
      [] p.event_type = "submit" -> GciSentence(p.task_claimed_by, "submitted", p, ".")
      [] p.event_type = "comment" -> GciSentence(p.author, "commented on", p, ".")
      [] p.event_type = "approve" -> GciSentence(p.author, "approved", p, ".")
      [] p.event_type = "unassign" ->
             GciSentence(p.author, "unassigned **" \o p.task_claimed_by \o "** from", p, ".")
      [] p.event_type = "approve-pending-pc" ->
             GciSentence(p.author, "approved", p, " (pending parental consent).")
      [] p.event_type = "needswork" ->
             GciSentence(p.author, "submitted", p, " for more work.")
      [] p.event_type = "extend" ->
             GciSentence(p.author, "extended the deadline for", p,
                         " by " \o ToString(p.extension_days) \o " day(s).")
      [] p.event_type = "outoftime" ->
             "The deadline for the task " \o GciLink(p) \o " has passed."

\* C11: every gci body returned is the one written out above for its type
\* and ends in exactly one period.
C11_GciBodies ==
    Returned("get_body_based_on_event") =>
        /\ ret.val = ExpectedGciBody(call.arg)
        /\ EndsWith(ret.val, ".")
        /\ ~EndsWith(ret.val, "..")

C11_Witness ==
    /\ Returned("get_body_based_on_event")
    /\ call.arg.event_type = "extend"
    /\ call.arg.extension_days = 7
    /\ call.arg.task_definition_name = "t"
    /\ call.arg.task_instance = "1"
    /\ ret.val = "**mentor-1** extended the deadline for the task [t](https://codein.withgoogle.com/dashboard/task-instances/1/) by 7 day(s)."

(***************************************************************************)
(* C15.  The payload keys an accepted event needs: those of the            *)
(* classifier, of the topic and of the formatter selected for its type.    *)
(***************************************************************************)
GciFormatterKeys(type) ==
    CASE type \in {"abandon", "claim", "submit"} ->
             {"task_claimed_by", "event_type", "task_definition_name", "task_instance"}
      [] type \in {"comment", "approve"} ->
             {"author", "event_type", "task_definition_name", "task_instance"}
      [] type \in {"approve-pending-pc", "needswork"} ->
             {"author", "task_definition_name", "task_instance"}
      [] type = "extend" ->
             {"author", "extension_days", "task_definition_name", "task_instance"}
      [] type = "unassign" ->
             {"author", "task_claimed_by", "task_definition_name", "task_instance"}
      [] type = "outoftime" -> {"task_definition_name", "task_instance"}

\* Event i of request r lacks a key that its processing reads.
LacksKey(r, i) ==
    LET ev == EventAt(r, i)
    IN  IF kind[r] = "gci"
        THEN \/ ~Has(ev, "event_type")
             \/ /\ ev.event_type \in TenGciTypes
                /\ ~(GciFormatterKeys(ev.event_type) \cup {"task_claimed_by"}
                       \subseteq DOMAIN ev)
        ELSE \/ ~Has(ev, "event")
             \/ /\ Classify(r, i).err = "none"
                /\ \/ ~Has(ev, "check")
                   \/ ~Has(ev.check, "url")
                   \/ ~Has(ev, "downtime")
                   \/ ~Has(ev.downtime, "started_at")
                   \/ Classify(r, i).val = "down" /\ ~Has(ev.downtime, "error")
                   \/ /\ Classify(r, i).val = "up"
                      /\ Truthy(ev.downtime.started_at)
                      /\ ~Has(ev.downtime, "duration")

\* C15: an event lacking a key it needs is never delivered, in whole or in
\* part; the request does not get past it and ends with the lookup error,
\* also when the body had been formatted before the topic field was missed.
C15_MissingKey ==
    \A r \in Reqs :
        kind[r] \in {"updown", "gci"} =>
            \A i \in 1..NumEvents(r) :
                LacksKey(r, i) =>
                    /\ ~Delivered(r, i)
                    /\ response[r] # "json_success"
                    /\ idx[r] <= i
                    /\ idx[r] = i => pc[r] # "send"
                    /\ (Ended(r) /\ idx[r] = i) => response[r] = "KeyError"

C15_Witness ==
    \E r \in Reqs :
        /\ kind[r] = "gci"
        /\ Ended(r)
        /\ ~Has(payload[r], "task_claimed_by")
        /\ StartsWith(body[r], "**mentor-1** commented on the task [")
        /\ response[r] = "KeyError"
        /\ sent = <<>>

(***************************************************************************)
(* C16.  For a duration d >= 0 the components the function computes are    *)
(* days = d div 86400, hours = (d mod 86400) div 3600,                     *)
(* minutes = (d mod 3600) div 60, seconds = d mod 60; they add up to d,    *)
(* with hours below 24 and minutes and seconds below 60.                   *)
(***************************************************************************)
C16_Decomposition ==
    (Called("get_time_string_based_on_duration") /\ call.arg >= 0) =>
        LET d == call.arg
            parts == DurationParts(d)
        IN  /\ parts.days = d \div 86400
            /\ parts.hours = (d % 86400) \div 3600
            /\ parts.minutes = (d % 3600) \div 60
            /\ parts.seconds = d % 60
            /\ parts.days * 86400 + parts.hours * 3600 + parts.minutes * 60
                   + parts.seconds = d
            /\ parts.days >= 0
            /\ parts.hours \in 0..23
            /\ parts.minutes \in 0..59
            /\ parts.seconds \in 0..59

C16_Witness ==
    /\ Returned("get_time_string_based_on_duration")
    /\ call.arg = 90061
    /\ DurationParts(call.arg) = [days |-> 1, hours |-> 1, minutes |-> 1, seconds |-> 1]
    /\ ret.val = "1 day 1 hour 1 minute 1 second"

(***************************************************************************)
(* C17: the registries.                                                    *)
(***************************************************************************)
ListItems(l) == {l[i] : i \in DOMAIN l}

\* The request has a classified type and is at, or past, the formatter lookup.
Classified(r) ==
    \/ kind[r] = "updown" /\ pc[r] \in {"subject", "body", "send"}
    \/ kind[r] = "gci" /\ pc[r] \in {"body", "subject", "send"}

RegistryOf(r) == IF kind[r] = "updown" THEN EVENT_TYPE_BODY_MAPPER ELSE EVENTS_FUNCTION_MAPPER

\* C17: at every point of every interleaving of the requests, the two
\* registries are what the import built (up and down, and the ten GCI types,
\* each with its one formatter), the type of every classified request is a
\* key of its registry, and each ALL_EVENT_TYPES lists exactly the keys of
\* its registry.
C17_Registries ==
    /\ DOMAIN EVENT_TYPE_BODY_MAPPER = {"up", "down"}
    /\ \A t \in {"up", "down"} :
          EVENT_TYPE_BODY_MAPPER[t] = "get_body_for_" \o t \o "_event"
    /\ DOMAIN EVENTS_FUNCTION_MAPPER = TenGciTypes
    /\ \A t \in TenGciTypes :
          EVENTS_FUNCTION_MAPPER[t] = "get_" \o Replace(t, "-", "_") \o "_event_body"
    /\ \A r \in Reqs : Classified(r) => event_type[r] \in DOMAIN RegistryOf(r)
    /\ ListItems(UPDOWN_ALL_EVENT_TYPES) = DOMAIN EVENT_TYPE_BODY_MAPPER
    /\ Len(UPDOWN_ALL_EVENT_TYPES) = Cardinality(DOMAIN EVENT_TYPE_BODY_MAPPER)
    /\ ListItems(GCI_ALL_EVENT_TYPES) = DOMAIN EVENTS_FUNCTION_MAPPER
    /\ Len(GCI_ALL_EVENT_TYPES) = Cardinality(DOMAIN EVENTS_FUNCTION_MAPPER)

\* Two requests of the same GCI type in flight together: one has looked its
\* formatter up and delivered, the other is about to look the same key up.
C17_Witness ==
    \E r1, r2 \in Reqs :
        /\ r1 # r2
        /\ kind[r1] = "gci" /\ pc[r1] = "done" /\ response[r1] = "json_success"
        /\ kind[r2] = "gci" /\ pc[r2] = "body" /\ event_type[r2] = event_type[r1]
        /\ \E i \in DOMAIN sent : sent[i].req = r1
        /\ event_type[r2] \in DOMAIN EVENTS_FUNCTION_MAPPER

(***************************************************************************)
(* C12: the rate limit on password changes.                                *)
(***************************************************************************)
WrongPassword(q) == q.result = "Wrong password!"

TooMany(q) == StartsWith(q.result, "You're making too many attempts!")

\* Request k comes inside the window that request i opened.
InsideWindow(i, k) ==
    pw_requests[k].time - pw_requests[i].time < RATELIMIT_SECONDS

\* Before request k no RATELIMIT_MAX_CALLS requests that were let through to
\* the password check lie inside the window ending at k: the window has elapsed.
WindowElapsed(k) ==
    ~ \E i, j \in 1..(k - 1) :
        /\ i < j
        /\ ~TooMany(pw_requests[i]) /\ ~TooMany(pw_requests[j])
        /\ InsideWindow(i, k)

\* C12: with a rule of 2 attempts per 10 seconds, once two requests inside
\* one window were answered "Wrong password!", every further password-change
\* request inside that window gets the too-many-attempts error, also with
\* the correct old password, and leaves the password as it was; a request
\* with the correct old password made once the window has elapsed succeeds
\* and stores the new password.
C12_RateLimit ==
    \A k \in DOMAIN pw_requests :
        /\ (\E i, j \in 1..(k - 1) :
                /\ i < j
                /\ WrongPassword(pw_requests[i]) /\ WrongPassword(pw_requests[j])
                /\ InsideWindow(i, k))
            => /\ TooMany(pw_requests[k])
               /\ pw_requests[k].after = pw_requests[k].before
        /\ (pw_requests[k].old_ok /\ WindowElapsed(k))
            => pw_requests[k].result = "success"
        /\ WrongPassword(pw_requests[k]) => pw_requests[k].after = pw_requests[k].before

\* The scenario of the test: two wrong passwords at one instant, the correct
\* one refused at that instant with 10 seconds to wait, and accepted 11
\* seconds later.
C12_Witness ==
    /\ Len(pw_requests) = 4
    /\ WrongPassword(pw_requests[1]) /\ WrongPassword(pw_requests[2])
    /\ pw_requests[2].time = pw_requests[1].time
    /\ pw_requests[3].time = pw_requests[1].time /\ pw_requests[3].old_ok
    /\ pw_requests[3].result = "You're making too many attempts! Try again in 10 seconds."
    /\ pw_requests[3].after = InitialPassword
    /\ pw_requests[4].time = pw_requests[1].time + 11 /\ pw_requests[4].old_ok
    /\ pw_requests[4].result = "success" /\ password = "foobar1"

(***************************************************************************)
(* C13: regenerating the API key.                                          *)
(***************************************************************************)
CurrentKeys(u) == ListItems(get_all_api_keys(u))

\* C13: the key a regeneration returned is none of the user's previous keys
\* and, until the user regenerates again, one of the current ones; no
\* previous key of any user resolves to a user, cached or not; every current
\* key resolves to its user.
C13_ApiKeys ==
    /\ regenerated.user # "" =>
          /\ regenerated.api_key \notin regenerated.old_api_keys
          /\ regenerated.old_api_keys = previous_keys[regenerated.user] =>
                regenerated.api_key \in CurrentKeys(regenerated.user)
    /\ \A u \in Users :
          /\ \A k \in previous_keys[u] :
                get_user_profile_by_api_key(k) = Raise("DoesNotExist")
          /\ \A k \in CurrentKeys(u) :
                get_user_profile_by_api_key(k) = Ok(u)
          /\ CurrentKeys(u) \cap previous_keys[u] = {}

\* hamlet's key 1 was cached by a lookup, then hamlet regenerated; the new
\* key has been looked up too.
C13_Witness ==
    /\ regenerated.user = "hamlet"
    /\ 1 \in previous_keys["hamlet"]
    /\ regenerated.api_key \in DOMAIN key_cache
    /\ regenerated.cached
    /\ 1 \notin DOMAIN key_cache
    /\ 2 \in DOMAIN key_cache

(***************************************************************************)
(* C14: invalid settings are refused and never saved.                      *)
(***************************************************************************)
\* The invalid values the claim lists.
InvalidValue(name, value) ==
    \/ name = "notification_sound" /\ value \notin {"ding", "zulip"}
    \/ name = "email_notifications_batching_period_seconds"
          /\ (value < 0 \/ value > 7 * 24 * 60 * 60)
    \/ name = "emojiset" /\ value \in {"apple", "emojione", "invalid_emojiset"}
    \/ name \in {"default_language", "default_view", "timezone"}
          /\ value = "invalid_" \o name
    \/ name \in {"demote_inactive_streams", "color_scheme"} /\ value = 100

\* C14: a PATCH with an invalid value is answered with an "Invalid ..." error
\* and the stored value is the one from before the request, never the invalid
\* one; a PATCH with a valid value succeeds and the stored value is the value
\* sent.
C14_InvalidNeverSaved ==
    /\ patch.setting # "" =>
          IF InvalidValue(patch.setting, patch.value)
          THEN /\ StartsWith(patch.result, "Invalid ")
               /\ settings[patch.setting] = patch.before
               /\ settings[patch.setting] # patch.value
          ELSE /\ patch.result = "success"
               /\ settings[patch.setting] = patch.value
    /\ \A name \in DOMAIN settings : ~InvalidValue(name, settings[name])

\* The banned emojiset was refused after a valid one had been stored.
C14_Witness ==
    /\ patch.setting = "emojiset" /\ patch.value = "apple"
    /\ patch.result = "Invalid emojiset"
    /\ patch.before = "google" /\ settings["emojiset"] = "google"
    /\ settings["email_notifications_batching_period_seconds"] = 300
====
